---- MODULE Spec2Model ----
(***************************************************************************)
(* The simulation driver of GimbalLock: run_simulator of                   *)
(* scripts/gyro_sim.py (the fixed-timestep loop, the velocity override, the*)
(* frame schedule, the shutdown path) and JointLogger of                   *)
(* src/joint_logger.py (the telemetry buffers).                            *)
(*                                                                         *)
(* Times (SIM_DT, DURATION, 1.0 / FPS, sim_time, next_frame_time) are      *)
(* exact multiples of one tick: the code's float additions and comparisons *)
(* are taken in exact arithmetic.  Joint positions and velocities are      *)
(* integers.  The physics engine, the camera and the encoder are outside   *)
(* the repository: an engine step yields one of a bounded family of joint  *)
(* states, and an engine or encoder call may raise.                        *)
(***************************************************************************)
EXTENDS Integers, Sequences, FiniteSets, TLC

\* ------------------------------------------------------------------ bounds
MaxDt == 3
MaxPeriod == 4
MaxDuration == 10
MaxLogSteps == 3
MaxApiCalls == 3
MaxPlotCalls == 1
NumSamples == 2
num_envs == 2
TicksPerSecond == 2

\* ------------------------------------------------------- program constants
num_joints == 3
JOINT1 == 1
JOINT2 == 2
INIT_JOINT_POS_joint1 == 785
INIT_JOINT_VEL_joint2 == 1000

VARIABLES
    SIM_DT,            \* physics timestep, in ticks
    DURATION,          \* run length, in ticks
    frame_period,      \* 1.0 / FPS, in ticks
    video_writer,      \* TRUE when run_simulator got a video writer (not None)
    joint_logger,      \* TRUE when run_simulator got a JointLogger (not None)
    pc,                \* position of the script
    physics_step, sim_time, next_frame_time, frames_captured,
    app_running,       \* simulation_app.is_running()
    app_closed,        \* number of simulation_app.close() calls
    raised,            \* "none", or the call whose exception is propagating
    joint_pos, joint_vel,      \* gyro.data.joint_pos / joint_vel, [env][joint]
    vel_writes,        \* write_joint_velocity_to_sim calls made by the loop
    pos_writes,        \* write_joint_position_to_sim calls made by the loop
    engine_steps,      \* sim.step() calls that returned
    updates,           \* camera.update calls
    decisions,         \* completed executions of the frame-capture statement
    frames_written,    \* video_writer.append_data calls that returned
    writer_closed,     \* video_writer.close() calls
    num_steps, position_buffer, velocity_buffer,   \* JointLogger fields
    warnings,          \* out-of-bounds warnings printed by JointLogger.log
    log_calls,         \* JointLogger.log calls made
    last_index,        \* the time_index of the latest JointLogger.log call
    logged,            \* the in-range indices passed to JointLogger.log so far
    overwritten,       \* the indices at which log replaced a different sample
    plot_calls, time_array,                        \* JointLogger.plot
    snapshots          \* take_picture calls that returned (scripts/sim.py)

cfg_vars == <<SIM_DT, DURATION, frame_period, video_writer, joint_logger>>
clock_vars == <<physics_step, sim_time>>
sched_vars == <<next_frame_time, frames_captured, frames_written>>
app_vars == <<app_running, app_closed>>
engine_vars == <<joint_pos, joint_vel, vel_writes, pos_writes, engine_steps, updates>>
buffer_vars == <<position_buffer, velocity_buffer>>
logger_vars == <<num_steps, position_buffer, velocity_buffer, warnings,
                 log_calls, last_index, logged, overwritten>>
plot_vars == <<plot_calls, time_array>>
vars == <<SIM_DT, DURATION, frame_period, video_writer, joint_logger, pc,
          physics_step, sim_time, next_frame_time, frames_captured,
          app_running, app_closed, raised, joint_pos, joint_vel, vel_writes,
          pos_writes, engine_steps, updates, decisions, frames_written,
          writer_closed, num_steps, position_buffer, velocity_buffer,
          warnings, log_calls, last_index, logged, overwritten,
          plot_calls, time_array, snapshots>>

Envs == 0 .. num_envs - 1
Joints == 0 .. num_joints - 1

\* ------------------------------------------------------------ joint states
\* gyro.data.default_joint_pos / default_joint_vel: the articulation's
\* init_state, INIT_JOINT_POS and INIT_JOINT_VEL, for every environment.
default_joint_pos ==
    [e \in Envs |-> [j \in Joints |-> IF j = JOINT1 THEN INIT_JOINT_POS_joint1 ELSE 0]]

default_joint_vel ==
    [e \in Envs |-> [j \in Joints |-> IF j = JOINT2 THEN INIT_JOINT_VEL_joint2 ELSE 0]]

\* The joint states an engine step can produce: sample k differs in every
\* environment and joint, and from the zero fill value and the targets.
SamplePos(k) == [e \in Envs |-> [j \in Joints |-> 100 * k + 10 * e + j + 1]]

SampleVel(k) == [e \in Envs |-> [j \in Joints |-> 0 - (100 * k + 10 * e + j + 1)]]

Samples == 1 .. NumSamples

\* ------------------------------------------------------------- JointLogger
\* int(duration / sim_dt) for positive operands: the integer part.
IntPart(duration, sim_dt) == duration \div sim_dt

\* torch.zeros((num_envs, n, num_joints))
zeros(n) == [e \in Envs |-> [i \in 0 .. n - 1 |-> [j \in Joints |-> 0]]]

\* mutant: the guard without its lower bound
OutOfBounds_no_lower(time_index) == time_index >= num_steps

\* the guard of JointLogger.log
OutOfBounds(time_index) == time_index < 0 \/ time_index >= num_steps

\* tensor[:, time_index, :]: a negative index counts from the end, and an
\* index outside -n .. n-1 raises IndexError.
InTensor(time_index) == 0 - num_steps <= time_index /\ time_index < num_steps

TensorIndex(time_index) ==
    IF time_index < 0 THEN time_index + num_steps ELSE time_index

\* mutant: a slice already written is kept (first write wins)
SetSlice_first_wins(buffer, time_index, data) ==
    [e \in Envs |->
        IF \E j \in Joints : buffer[e][TensorIndex(time_index)][j] # 0
        THEN buffer[e]
        ELSE [buffer[e] EXCEPT ![TensorIndex(time_index)] = data[e]]]

\* mutant: the sample is written to every time slice, buffer[:, :, :] = data
SetSlice_every_slice(buffer, time_index, data) ==
    [e \in Envs |-> [i \in DOMAIN buffer[e] |-> data[e]]]

\* buffer[:, time_index, :] = data
SetSlice(buffer, time_index, data) ==
    [e \in Envs |-> [buffer[e] EXCEPT ![TensorIndex(time_index)] = data[e]]]

Slice(buffer, i) == [e \in Envs |-> buffer[e][i]]

log(time_index) ==
    /\ log_calls' = log_calls + 1
    /\ last_index' = time_index
    /\ IF OutOfBounds(time_index)
       THEN /\ warnings' = warnings + 1
            /\ UNCHANGED <<position_buffer, velocity_buffer, logged,
                           overwritten, raised>>
       ELSE IF InTensor(time_index)
       THEN /\ position_buffer' = SetSlice(position_buffer, time_index, joint_pos)
            /\ velocity_buffer' = SetSlice(velocity_buffer, time_index, joint_vel)
            /\ logged' = logged \cup {time_index}
            /\ overwritten' =
                 IF /\ time_index \in logged
                    /\ \/ Slice(position_buffer, TensorIndex(time_index)) # joint_pos
                       \/ Slice(velocity_buffer, TensorIndex(time_index)) # joint_vel
                 THEN overwritten \cup {time_index}
                 ELSE overwritten
            /\ UNCHANGED <<warnings, raised>>
       ELSE /\ raised' = "IndexError"
            /\ UNCHANGED <<position_buffer, velocity_buffer, logged,
                           overwritten, warnings>>
    /\ UNCHANGED num_steps

\* mutant: the end point included, as np.linspace would
arange_inclusive(n) == [i \in 0 .. n |-> i]

\* np.arange(n)
arange(n) == [i \in 0 .. n - 1 |-> i]

\* time_array = np.arange(self.num_steps) * self.sim_dt
TimeAxis == [i \in DOMAIN arange(num_steps) |-> arange(num_steps)[i] * SIM_DT]

plot ==
    /\ time_array' = TimeAxis
    /\ plot_calls' = plot_calls + 1

\* ------------------------------------------------------------------ camera
\* record_frame(camera, video_writer): nothing without a writer, otherwise
\* one frame appended to the video.
record_frame ==
    frames_written' = IF video_writer THEN frames_written + 1 ELSE frames_written

\* --------------------------------------------------------------- the engine
\* sim.step(): the solver keeps the state written to it or moves every
\* joint of every environment (sample k).
SolverOutcomes ==
    {<<joint_pos, joint_vel>>} \cup {<<SamplePos(k), SampleVel(k)>> : k \in Samples}

\* mutant: the vector rebuilt from the defaults, not from the engine's state
OverrideVel_from_defaults(vel) == default_joint_vel

\* joint_vel = gyro.data.joint_vel.clone(); joint_vel[:, 2] = INIT_JOINT_VEL["joint2"]
OverrideVel(vel) == [e \in Envs |-> [vel[e] EXCEPT ![JOINT2] = INIT_JOINT_VEL_joint2]]

\* ------------------------------------------------------------ run_simulator
\* mutant: the loop runs until the host stops, the clock not consulted
LoopCondition_host_only == app_running

\* while simulation_app.is_running() and sim_time < DURATION
LoopCondition == app_running /\ sim_time < DURATION

\* mutant: a strict comparison with the deadline
CaptureCondition_strict == sim_time > next_frame_time /\ video_writer

\* mutant: a capture on every step, the deadline ignored
CaptureCondition_always == video_writer

\* mutant: the deadline alone decides, the writer not consulted
CaptureCondition_deadline_only == sim_time >= next_frame_time

\* if sim_time >= next_frame_time and video_writer is not None
CaptureCondition == sim_time >= next_frame_time /\ video_writer

\* mutant: the clock is set to the step size instead of advanced by it
AdvanceTime_reset(t) == SIM_DT

\* sim_time += SIM_DT
AdvanceTime(t) == t + SIM_DT

\* mutant: the deadline is recomputed from the clock
AdvanceDeadline_from_clock(deadline) == sim_time + frame_period

\* mutant: a capture leaves the deadline where it was
AdvanceDeadline_not_advanced(deadline) == deadline

\* next_frame_time += 1.0 / FPS
AdvanceDeadline(deadline) == deadline + frame_period

\* the statement the loop runs after each one
AfterOverride == "step"
AfterStep == "update"
\* mutant: the telemetry record skipped, the capture statement next
AfterUpdate_capture_first == "capture"
AfterUpdate == "log"
AfterLog == "capture"
AfterCapture == "loop"

\* loop body, first statement: read the velocities, override joint 2, write back
Override ==
    /\ pc = "loop"
    /\ LoopCondition
    /\ joint_vel' = OverrideVel(joint_vel)
    /\ vel_writes' = vel_writes + 1
    /\ pc' = AfterOverride
    /\ UNCHANGED <<cfg_vars, snapshots, clock_vars, sched_vars, app_vars, raised, joint_pos,
                   pos_writes, engine_steps, updates, decisions, writer_closed,
                   logger_vars, plot_vars>>

\* gyro.write_joint_velocity_to_sim raises: the exception leaves run_simulator
OverrideRaises ==
    /\ pc = "loop"
    /\ LoopCondition
    /\ raised' = "write_joint_velocity_to_sim"
    /\ pc' = "finally"
    /\ UNCHANGED <<cfg_vars, snapshots, clock_vars, sched_vars, app_vars, engine_vars,
                   decisions, writer_closed, logger_vars, plot_vars>>

\* sim.step(); physics_step += 1; sim_time += SIM_DT
Step ==
    /\ pc = "step"
    /\ \E o \in SolverOutcomes :
         /\ joint_pos' = o[1]
         /\ joint_vel' = o[2]
    /\ engine_steps' = engine_steps + 1
    /\ physics_step' = physics_step + 1
    /\ sim_time' = AdvanceTime(sim_time)
    /\ pc' = AfterStep
    /\ UNCHANGED <<cfg_vars, snapshots, sched_vars, app_vars, raised, vel_writes, pos_writes,
                   updates, decisions, writer_closed, logger_vars, plot_vars>>

\* mutant: the failed step is tried again by the loop
StepRaises_retry ==
    /\ pc = "step"
    /\ raised' = "step"
    /\ pc' = "step"
    /\ UNCHANGED <<cfg_vars, snapshots, clock_vars, sched_vars, app_vars, engine_vars,
                   decisions, writer_closed, logger_vars, plot_vars>>

\* sim.step() raises
StepRaises ==
    /\ pc = "step"
    /\ raised' = "step"
    /\ pc' = "finally"
    /\ UNCHANGED <<cfg_vars, snapshots, clock_vars, sched_vars, app_vars, engine_vars,
                   decisions, writer_closed, logger_vars, plot_vars>>

\* gyro.update; scene.update; camera.update; scene.write_data_to_sim
Update ==
    /\ pc = "update"
    /\ updates' = updates + 1
    /\ pc' = AfterUpdate
    /\ UNCHANGED <<cfg_vars, snapshots, clock_vars, sched_vars, app_vars, raised, joint_pos,
                   joint_vel, vel_writes, pos_writes, engine_steps, decisions,
                   writer_closed, logger_vars, plot_vars>>

\* mutant: the index taken after the increment, without the - 1
LogIndex_no_minus_one == physics_step

\* the index the loop passes to joint_logger.log
LogIndex == physics_step - 1

\* if joint_logger is not None: joint_logger.log(physics_step - 1)
Log ==
    /\ pc = "log"
    /\ IF joint_logger
       THEN log(LogIndex)
       ELSE UNCHANGED <<logger_vars, raised>>
    /\ pc' = IF raised' = "none" THEN AfterLog ELSE "finally"
    /\ UNCHANGED <<cfg_vars, snapshots, clock_vars, sched_vars, app_vars, engine_vars,
                   decisions, writer_closed, plot_vars>>

\* mutant: a catch-up loop, one capture for every deadline already due
Capture_catch_up ==
    /\ pc = "capture"
    /\ IF CaptureCondition
       THEN LET due == (sim_time - next_frame_time) \div frame_period + 1
            IN  /\ frames_written' = frames_written + due
                /\ frames_captured' = frames_captured + due
                /\ next_frame_time' = next_frame_time + due * frame_period
       ELSE UNCHANGED sched_vars
    /\ decisions' = decisions + 1
    /\ pc' = AfterCapture
    /\ UNCHANGED <<cfg_vars, snapshots, clock_vars, app_vars, raised, engine_vars,
                   writer_closed, logger_vars, plot_vars>>

\* the frame-capture statement: record_frame, frames_captured += 1,
\* next_frame_time += 1.0 / FPS, when the condition holds
Capture ==
    /\ pc = "capture"
    /\ IF CaptureCondition
       THEN /\ record_frame
            /\ frames_captured' = frames_captured + 1
            /\ next_frame_time' = AdvanceDeadline(next_frame_time)
       ELSE UNCHANGED sched_vars
    /\ decisions' = decisions + 1
    /\ pc' = AfterCapture
    /\ UNCHANGED <<cfg_vars, snapshots, clock_vars, app_vars, raised, engine_vars,
                   writer_closed, logger_vars, plot_vars>>

\* record_frame raises (the camera read or video_writer.append_data)
CaptureRaises ==
    /\ pc = "capture"
    /\ CaptureCondition
    /\ raised' = "record_frame"
    /\ pc' = "finally"
    /\ UNCHANGED <<cfg_vars, snapshots, clock_vars, sched_vars, app_vars, engine_vars,
                   decisions, writer_closed, logger_vars, plot_vars>>

\* the loop condition is false: the statements after the loop follow
LoopExit ==
    /\ pc = "loop"
    /\ ~LoopCondition
    /\ pc' = "close_writer"
    /\ UNCHANGED <<cfg_vars, snapshots, clock_vars, sched_vars, app_vars, raised, engine_vars,
                   decisions, writer_closed, logger_vars, plot_vars>>

\* mutant: the writer closed only after a run that reached DURATION
CloseWriter_only_when_complete ==
    /\ pc = "close_writer"
    /\ writer_closed' =
         IF video_writer /\ sim_time >= DURATION THEN writer_closed + 1 ELSE writer_closed
    /\ pc' = "plot"
    /\ UNCHANGED <<cfg_vars, snapshots, clock_vars, sched_vars, app_vars, raised, engine_vars,
                   decisions, logger_vars, plot_vars>>

\* if video_writer is not None: video_writer.close()
CloseWriter ==
    /\ pc = "close_writer"
    /\ writer_closed' = IF video_writer THEN writer_closed + 1 ELSE writer_closed
    /\ pc' = "plot"
    /\ UNCHANGED <<cfg_vars, snapshots, clock_vars, sched_vars, app_vars, raised, engine_vars,
                   decisions, logger_vars, plot_vars>>

\* mutant: no plot after a run the host cut short
Plot_only_when_complete ==
    /\ pc = "plot"
    /\ IF joint_logger /\ sim_time >= DURATION THEN plot ELSE UNCHANGED plot_vars
    /\ pc' = "app_close"
    /\ UNCHANGED <<cfg_vars, snapshots, clock_vars, sched_vars, app_vars, raised, engine_vars,
                   decisions, writer_closed, logger_vars>>

\* if joint_logger is not None: joint_logger.plot(...)
Plot ==
    /\ pc = "plot"
    /\ IF joint_logger THEN plot ELSE UNCHANGED plot_vars
    /\ pc' = "app_close"
    /\ UNCHANGED <<cfg_vars, snapshots, clock_vars, sched_vars, app_vars, raised, engine_vars,
                   decisions, writer_closed, logger_vars>>

\* simulation_app.close(), the last statement of run_simulator
AppClose ==
    /\ pc = "app_close"
    /\ app_closed' = app_closed + 1
    /\ app_running' = FALSE
    /\ pc' = "finally"
    /\ UNCHANGED <<cfg_vars, snapshots, clock_vars, sched_vars, raised, engine_vars, decisions,
                   writer_closed, logger_vars, plot_vars>>

\* finally: if simulation_app.is_running(): simulation_app.close()
Finally ==
    /\ pc = "finally"
    /\ app_closed' = IF app_running THEN app_closed + 1 ELSE app_closed
    /\ app_running' = FALSE
    /\ pc' = "exit"
    /\ UNCHANGED <<cfg_vars, snapshots, clock_vars, sched_vars, raised, engine_vars, decisions,
                   writer_closed, logger_vars, plot_vars>>

\* the host stops running (the window is closed) while the script runs
HostStop ==
    /\ pc # "exit"
    /\ app_running
    /\ app_running' = FALSE
    /\ UNCHANGED <<cfg_vars, snapshots, pc, clock_vars, sched_vars, app_closed, raised,
                   engine_vars, decisions, writer_closed, logger_vars, plot_vars>>

\* mutant: the first deadline one frame period after the start
InitialDeadline_one_period == frame_period

\* next_frame_time = 0.0
InitialDeadline == 0

\* The state run_simulator's loop starts in: the initial joint state written
\* to the engine, the counters at zero, the logger constructed by main().
Init ==
    /\ SIM_DT \in 1 .. MaxDt
    /\ DURATION \in 1 .. MaxDuration
    /\ frame_period \in 1 .. MaxPeriod
    /\ video_writer \in BOOLEAN
    /\ joint_logger \in BOOLEAN
    /\ joint_logger => IntPart(DURATION, SIM_DT) <= MaxLogSteps
    /\ pc = "loop"
    /\ physics_step = 0
    /\ sim_time = 0
    /\ next_frame_time = InitialDeadline
    /\ frames_captured = 0
    /\ app_running = TRUE
    /\ app_closed = 0
    /\ raised = "none"
    /\ joint_pos = default_joint_pos
    /\ joint_vel = default_joint_vel
    /\ vel_writes = 0
    /\ pos_writes = 0
    /\ engine_steps = 0
    /\ updates = 0
    /\ decisions = 0
    /\ frames_written = 0
    /\ writer_closed = 0
    /\ num_steps = IntPart(DURATION, SIM_DT)
    /\ position_buffer = zeros(IntPart(DURATION, SIM_DT))
    /\ velocity_buffer = zeros(IntPart(DURATION, SIM_DT))
    /\ warnings = 0
    /\ log_calls = 0
    /\ last_index = 0
    /\ logged = {}
    /\ overwritten = {}
    /\ plot_calls = 0
    /\ time_array = <<>>
    /\ snapshots = 0

\* ---------------------------------------------- JointLogger, called directly
\* The state after JointLogger(robot, sim_dt, duration): the buffers
\* allocated and zero, the script in main() before run_simulator.
InitLogger ==
    /\ SIM_DT \in 1 .. MaxDt
    /\ DURATION \in 1 .. MaxDuration
    /\ IntPart(DURATION, SIM_DT) <= MaxLogSteps
    /\ frame_period = 1
    /\ video_writer = FALSE
    /\ joint_logger = TRUE
    /\ pc = "main"
    /\ physics_step = 0
    /\ sim_time = 0
    /\ next_frame_time = InitialDeadline
    /\ frames_captured = 0
    /\ app_running = TRUE
    /\ app_closed = 0
    /\ raised = "none"
    /\ joint_pos = default_joint_pos
    /\ joint_vel = default_joint_vel
    /\ vel_writes = 0
    /\ pos_writes = 0
    /\ engine_steps = 0
    /\ updates = 0
    /\ decisions = 0
    /\ frames_written = 0
    /\ writer_closed = 0
    /\ num_steps = IntPart(DURATION, SIM_DT)
    /\ position_buffer = zeros(IntPart(DURATION, SIM_DT))
    /\ velocity_buffer = zeros(IntPart(DURATION, SIM_DT))
    /\ warnings = 0
    /\ log_calls = 0
    /\ last_index = 0
    /\ logged = {}
    /\ overwritten = {}
    /\ plot_calls = 0
    /\ time_array = <<>>
    /\ snapshots = 0

\* the indices a caller passes to log: in range, below and above
ApiIndices == -1 .. num_steps + 1

\* logger.log(i), for any index
ApiLog ==
    /\ pc = "main"
    /\ raised = "none"
    /\ log_calls < MaxApiCalls
    /\ \E i \in ApiIndices : log(i)
    /\ UNCHANGED <<cfg_vars, snapshots, pc, clock_vars, sched_vars, app_vars, engine_vars,
                   decisions, writer_closed, plot_vars>>

\* the robot's joint state changes between two calls
ApiRobotMoves ==
    /\ pc = "main"
    /\ \E k \in Samples :
         /\ joint_pos' = SamplePos(k)
         /\ joint_vel' = SampleVel(k)
    /\ UNCHANGED <<cfg_vars, snapshots, pc, clock_vars, sched_vars, app_vars, raised,
                   vel_writes, pos_writes, engine_steps, updates, decisions,
                   writer_closed, logger_vars, plot_vars>>

\* logger.plot(output_dir)
ApiPlot ==
    /\ pc = "main"
    /\ plot_calls < MaxPlotCalls
    /\ plot
    /\ UNCHANGED <<cfg_vars, snapshots, pc, clock_vars, sched_vars, app_vars, raised,
                   engine_vars, decisions, writer_closed, logger_vars>>

NextLogger ==
    \/ ApiLog
    \/ ApiRobotMoves
    \/ ApiPlot

SpecLogger == InitLogger /\ [][NextLogger]_vars

Next ==
    \/ Override
    \/ OverrideRaises
    \/ Step
    \/ StepRaises
    \/ Update
    \/ Log
    \/ Capture
    \/ CaptureRaises
    \/ LoopExit
    \/ CloseWriter
    \/ Plot
    \/ AppClose
    \/ Finally
    \/ HostStop

Spec == Init /\ [][Next]_vars

\* The script's next statement: every step but the host's. The interpreter
\* always goes on to the next statement, and every call into the engine,
\* the camera, the encoder or the logger returns or raises.
ScriptStep ==
    \/ Override
    \/ OverrideRaises
    \/ Step
    \/ StepRaises
    \/ Update
    \/ Log
    \/ Capture
    \/ CaptureRaises
    \/ LoopExit
    \/ CloseWriter
    \/ Plot
    \/ AppClose
    \/ Finally

SpecFair == Init /\ [][Next]_vars /\ WF_vars(ScriptStep)

\* End-to-end scenario 1: dt = 0.01, duration = 1.0, fps = 10 with a video
\* writer, in ticks of 0.01 s (SIM_DT = 1, DURATION = 100, 1.0 / FPS = 10).
\* The logger is constructed by main() as always; its buffers are not
\* attached to the loop here.
InitScenario1 ==
    /\ SIM_DT = 1
    /\ DURATION = 100
    /\ frame_period = 10
    /\ video_writer = TRUE
    /\ joint_logger = FALSE
    /\ pc = "loop"
    /\ physics_step = 0
    /\ sim_time = 0
    /\ next_frame_time = InitialDeadline
    /\ frames_captured = 0
    /\ app_running = TRUE
    /\ app_closed = 0
    /\ raised = "none"
    /\ joint_pos = default_joint_pos
    /\ joint_vel = default_joint_vel
    /\ vel_writes = 0
    /\ pos_writes = 0
    /\ engine_steps = 0
    /\ updates = 0
    /\ decisions = 0
    /\ frames_written = 0
    /\ writer_closed = 0
    /\ num_steps = IntPart(DURATION, SIM_DT)
    /\ position_buffer = zeros(IntPart(DURATION, SIM_DT))
    /\ velocity_buffer = zeros(IntPart(DURATION, SIM_DT))
    /\ warnings = 0
    /\ log_calls = 0
    /\ last_index = 0
    /\ logged = {}
    /\ overwritten = {}
    /\ plot_calls = 0
    /\ time_array = <<>>
    /\ snapshots = 0

SpecScenario1 == InitScenario1 /\ [][Next]_vars

\* --------------------------------------------------- scripts/sim.py
\* run_simulator of scripts/sim.py: the same loop with no logger, and a
\* still snapshot after the frame-capture statement. One second is
\* TicksPerSecond ticks.

\* if 1.0 <= sim_time < 1.0 + SIM_DT and physics_step > 1
SnapshotCondition ==
    /\ TicksPerSecond <= sim_time
    /\ sim_time < TicksPerSecond + SIM_DT
    /\ physics_step > 1

\* gyro.update; scene.update; camera.update; scene.write_data_to_sim: the
\* frame-capture statement follows
SimUpdate ==
    /\ pc = "update"
    /\ updates' = updates + 1
    /\ pc' = "capture"
    /\ UNCHANGED <<cfg_vars, snapshots, clock_vars, sched_vars, app_vars, raised,
                   joint_pos, joint_vel, vel_writes, pos_writes, engine_steps,
                   decisions, writer_closed, logger_vars, plot_vars>>

\* the frame-capture statement of sim.py: the snapshot statement follows
SimCapture ==
    /\ pc = "capture"
    /\ IF CaptureCondition
       THEN /\ record_frame
            /\ frames_captured' = frames_captured + 1
            /\ next_frame_time' = AdvanceDeadline(next_frame_time)
       ELSE UNCHANGED sched_vars
    /\ decisions' = decisions + 1
    /\ pc' = "snapshot"
    /\ UNCHANGED <<cfg_vars, snapshots, clock_vars, app_vars, raised, engine_vars,
                   writer_closed, logger_vars, plot_vars>>

\* the snapshot statement: take_picture when the condition holds
Snapshot ==
    /\ pc = "snapshot"
    /\ snapshots' = IF SnapshotCondition THEN snapshots + 1 ELSE snapshots
    /\ pc' = "loop"
    /\ UNCHANGED <<cfg_vars, clock_vars, sched_vars, app_vars, raised, engine_vars,
                   decisions, writer_closed, logger_vars, plot_vars>>

\* take_picture raises (the camera read or rep_writer.write)
SnapshotRaises ==
    /\ pc = "snapshot"
    /\ SnapshotCondition
    /\ raised' = "take_picture"
    /\ pc' = "finally"
    /\ UNCHANGED <<cfg_vars, snapshots, clock_vars, sched_vars, app_vars,
                   engine_vars, decisions, writer_closed, logger_vars, plot_vars>>

\* if video_writer is not None: video_writer.close(); simulation_app.close()
\* follows, sim.py has no plot
SimCloseWriter ==
    /\ pc = "close_writer"
    /\ writer_closed' = IF video_writer THEN writer_closed + 1 ELSE writer_closed
    /\ pc' = "app_close"
    /\ UNCHANGED <<cfg_vars, snapshots, clock_vars, sched_vars, app_vars, raised,
                   engine_vars, decisions, logger_vars, plot_vars>>

\* The state sim.py's loop starts in: joint 1's angle written to the engine,
\* the velocities at the articulation's defaults (zero), no logger.
InitSim ==
    /\ SIM_DT \in 1 .. MaxDt
    /\ DURATION \in 1 .. MaxDuration
    /\ frame_period \in 1 .. MaxPeriod
    /\ video_writer \in BOOLEAN
    /\ joint_logger = FALSE
    /\ pc = "loop"
    /\ physics_step = 0
    /\ sim_time = 0
    /\ next_frame_time = InitialDeadline
    /\ frames_captured = 0
    /\ app_running = TRUE
    /\ app_closed = 0
    /\ raised = "none"
    /\ joint_pos = default_joint_pos
    /\ joint_vel = [e \in Envs |-> [j \in Joints |-> 0]]
    /\ vel_writes = 0
    /\ pos_writes = 0
    /\ engine_steps = 0
    /\ updates = 0
    /\ decisions = 0
    /\ frames_written = 0
    /\ writer_closed = 0
    /\ num_steps = 0
    /\ position_buffer = zeros(0)
    /\ velocity_buffer = zeros(0)
    /\ warnings = 0
    /\ log_calls = 0
    /\ last_index = 0
    /\ logged = {}
    /\ overwritten = {}
    /\ plot_calls = 0
    /\ time_array = <<>>
    /\ snapshots = 0

NextSim ==
    \/ Override
    \/ OverrideRaises
    \/ Step
    \/ StepRaises
    \/ SimUpdate
    \/ SimCapture
    \/ CaptureRaises
    \/ Snapshot
    \/ SnapshotRaises
    \/ LoopExit
    \/ SimCloseWriter
    \/ AppClose
    \/ Finally
    \/ HostStop

SpecSim == InitSim /\ [][NextSim]_vars

\* A run whose FPS constant may be negative: 1.0 / FPS is then a negative
\* period. Nothing between the constants and the loop tests the sign of FPS.
\* FPS = 0 and SIM_DT = 0 do not reach the loop: 1 / SIM_DT / FPS and
\* DURATION / SIM_DT in the start-up prints divide by zero.
InitConfig ==
    /\ SIM_DT \in 1 .. MaxDt
    /\ DURATION \in 1 .. MaxDuration
    /\ frame_period \in (0 - MaxPeriod .. MaxPeriod) \ {0}
    /\ video_writer \in BOOLEAN
    /\ joint_logger \in BOOLEAN
    /\ joint_logger => IntPart(DURATION, SIM_DT) <= MaxLogSteps
    /\ pc = "loop"
    /\ physics_step = 0
    /\ sim_time = 0
    /\ next_frame_time = InitialDeadline
    /\ frames_captured = 0
    /\ app_running = TRUE
    /\ app_closed = 0
    /\ raised = "none"
    /\ joint_pos = default_joint_pos
    /\ joint_vel = default_joint_vel
    /\ vel_writes = 0
    /\ pos_writes = 0
    /\ engine_steps = 0
    /\ updates = 0
    /\ decisions = 0
    /\ frames_written = 0
    /\ writer_closed = 0
    /\ num_steps = IntPart(DURATION, SIM_DT)
    /\ position_buffer = zeros(IntPart(DURATION, SIM_DT))
    /\ velocity_buffer = zeros(IntPart(DURATION, SIM_DT))
    /\ warnings = 0
    /\ log_calls = 0
    /\ last_index = 0
    /\ logged = {}
    /\ overwritten = {}
    /\ plot_calls = 0
    /\ time_array = <<>>
    /\ snapshots = 0

SpecConfig == InitConfig /\ [][Next]_vars

\* ------------------------------------------------------------------ claims
\* an iteration has run to its end: every step taken has had its
\* frame-capture statement executed
AfterIteration == decisions = physics_step

\* a step of the behaviour is a JointLogger.log call
LogCalled == log_calls' = log_calls + 1

\* the events of the loop, counted
EventCount == vel_writes + engine_steps + updates + log_calls + decisions

\* C1: in every state of run_simulator sim_time = physics_step * SIM_DT; a
\* step of the run either leaves both alone or advances physics_step by 1
\* and sim_time by SIM_DT, together with one returned sim.step() call, so
\* neither decreases nor is reset, and each advances once per physics step.
C1_ClockInvariant ==
    /\ [](sim_time = physics_step * SIM_DT /\ physics_step = engine_steps)
    /\ [][\/ /\ physics_step' = physics_step
             /\ sim_time' = sim_time
             /\ engine_steps' = engine_steps
          \/ /\ physics_step' = physics_step + 1
             /\ sim_time' = sim_time + SIM_DT
             /\ engine_steps' = engine_steps + 1]_vars

C1_Witness == physics_step >= 3 /\ SIM_DT >= 2 /\ sim_time = physics_step * SIM_DT

\* C2: the events of the loop are strictly ordered within an iteration and
\* across iterations: override write n, engine step n, scene/camera update
\* n, telemetry record n (when a logger is attached), frame-capture
\* decision n, and only then override write n + 1; every step of the run
\* is at most one of these events.
C2_EventOrder ==
    /\ [](/\ engine_steps <= vel_writes
          /\ updates <= engine_steps
          /\ IF joint_logger
             THEN log_calls <= updates /\ decisions <= log_calls
             ELSE log_calls = 0 /\ decisions <= updates
          /\ vel_writes <= decisions + 1)
    /\ [][EventCount' \in {EventCount, EventCount + 1}]_vars

C2_Witness ==
    /\ joint_logger
    /\ pc = "capture"
    /\ vel_writes = 3 /\ engine_steps = 3 /\ updates = 3 /\ log_calls = 3
    /\ decisions = 2

\* C3: with a logger attached, the iteration that completes physics step k
\* calls log with index k - 1, and the n-th call of the run (counted from
\* 0) passes index n: the indices are 0, 1, 2, ... in order, none twice;
\* every completed step has had its log call.
C3_LogIndices ==
    /\ [][LogCalled =>
            /\ joint_logger
            /\ last_index' = physics_step - 1
            /\ last_index' = log_calls
            /\ engine_steps = physics_step]_vars
    /\ [](joint_logger /\ pc = "capture" => log_calls = physics_step)
    /\ [](log_calls > 0 => last_index = log_calls - 1)

C3_Witness == joint_logger /\ log_calls = 3 /\ last_index = 2 /\ physics_step = 3

\* C4: a log call with time_index < 0 or time_index >= num_steps raises
\* nothing, prints one warning and leaves both buffers unchanged; a step
\* that changes a buffer is a log call with an index in [0, num_steps).
C4_OutOfRangeIgnored ==
    /\ [][LogCalled /\ (last_index' < 0 \/ last_index' >= num_steps) =>
            /\ position_buffer' = position_buffer
            /\ velocity_buffer' = velocity_buffer
            /\ warnings' = warnings + 1
            /\ raised' = "none"]_vars
    /\ [][buffer_vars' # buffer_vars =>
            /\ LogCalled
            /\ last_index' \in 0 .. num_steps - 1]_vars

C4_Witness ==
    /\ warnings >= 2
    /\ last_index < 0
    /\ logged # {}
    /\ joint_pos # default_joint_pos
    /\ raised = "none"

\* C5: a log call at an index already logged stores the state of that
\* call, whatever was stored there (last write wins), and every index never
\* passed to log holds zero for every environment and joint in both buffers.
C5_LastWriteWins ==
    /\ [][LogCalled /\ last_index' \in logged =>
            /\ Slice(position_buffer', last_index') = joint_pos
            /\ Slice(velocity_buffer', last_index') = joint_vel]_vars
    /\ [](\A i \in 0 .. num_steps - 1 :
            i \notin logged =>
                /\ Slice(position_buffer, i) = Slice(zeros(num_steps), i)
                /\ Slice(velocity_buffer, i) = Slice(zeros(num_steps), i))

C5_Witness ==
    /\ overwritten # {}
    /\ \E i \in 0 .. num_steps - 1 : i \notin logged

\* C6: an in-range log(i) copies the current joint positions and velocities
\* of every environment and joint into time slice i of the position and of
\* the velocity buffer and leaves every other time slice of both unchanged.
C6_LogWritesOneSlice ==
    [][LogCalled /\ last_index' \in 0 .. num_steps - 1 =>
         /\ Slice(position_buffer', last_index') = joint_pos
         /\ Slice(velocity_buffer', last_index') = joint_vel
         /\ \A j \in 0 .. num_steps - 1 :
              j # last_index' =>
                /\ Slice(position_buffer', j) = Slice(position_buffer, j)
                /\ Slice(velocity_buffer', j) = Slice(velocity_buffer, j)]_vars

C6_Witness ==
    /\ Cardinality(logged) >= 2
    /\ \E i, j \in logged :
         /\ i # j
         /\ Slice(position_buffer, i) # Slice(position_buffer, j)
         /\ Slice(velocity_buffer, i) = SampleVel(1)

\* C7: num_steps is the integer part of DURATION / SIM_DT from construction
\* on, no step changes it or the shape of a buffer, and the time axis plot
\* rebuilds has exactly num_steps points, point i at i * SIM_DT.
C7_CapacityFixed ==
    /\ [](/\ num_steps * SIM_DT <= DURATION
          /\ DURATION < (num_steps + 1) * SIM_DT
          /\ \A e \in Envs :
               /\ DOMAIN position_buffer[e] = 0 .. num_steps - 1
               /\ DOMAIN velocity_buffer[e] = 0 .. num_steps - 1)
    /\ [][num_steps' = num_steps]_vars
    /\ [](plot_calls > 0 =>
            /\ DOMAIN time_array = 0 .. num_steps - 1
            /\ \A i \in 0 .. num_steps - 1 : time_array[i] = i * SIM_DT)

C7_Witness ==
    /\ plot_calls > 0
    /\ num_steps >= 2
    /\ SIM_DT >= 2
    /\ DURATION > num_steps * SIM_DT
    /\ logged # {}

\* C8: with a video writer attached, an execution of the frame-capture
\* statement captures a frame (one frame written, frames_captured + 1) if
\* and only if sim_time >= next_frame_time; otherwise it writes no frame
\* and changes neither next_frame_time nor frames_captured; no other step
\* captures a frame.
C8_CaptureIffDue ==
    [][video_writer =>
         /\ decisions' = decisions + 1 /\ sim_time >= next_frame_time =>
              /\ frames_written' = frames_written + 1
              /\ frames_captured' = frames_captured + 1
         /\ decisions' = decisions + 1 /\ sim_time < next_frame_time =>
              /\ frames_written' = frames_written
              /\ frames_captured' = frames_captured
              /\ next_frame_time' = next_frame_time
         /\ decisions' = decisions =>
              /\ frames_written' = frames_written
              /\ frames_captured' = frames_captured
              /\ next_frame_time' = next_frame_time]_vars

C8_Witness ==
    /\ video_writer
    /\ frames_captured >= 2
    /\ decisions >= frames_captured + 2
    /\ sim_time = next_frame_time - frame_period

\* C9: a capture advances next_frame_time by exactly one frame period and
\* frames_captured by exactly 1, however far sim_time is past the deadline;
\* next_frame_time = frames_captured * frame_period in every state, and
\* next_frame_time never decreases.
C9_FixedIncrement ==
    /\ [](next_frame_time = frames_captured * frame_period)
    /\ [][/\ frames_captured' \in {frames_captured, frames_captured + 1}
          /\ frames_captured' = frames_captured + 1 =>
               next_frame_time' = next_frame_time + frame_period
          /\ frames_captured' = frames_captured =>
               next_frame_time' = next_frame_time]_vars

C9_Witness ==
    /\ frames_captured >= 3
    /\ sim_time > next_frame_time + frame_period
    /\ next_frame_time = frames_captured * frame_period

\* C10 as stated: whenever SIM_DT < frame_period, after every loop iteration
\* frames_captured is within one frame of floor(T * fps), T = physics_step
\* * SIM_DT.
C10_Original ==
    AfterIteration /\ SIM_DT < frame_period =>
        /\ frames_captured <= (physics_step * SIM_DT) \div frame_period + 1
        /\ (physics_step * SIM_DT) \div frame_period <= frames_captured + 1

\* C10, amended: in a run with a video writer attached and SIM_DT <
\* frame_period, after every loop iteration frames_captured is within one
\* frame of floor(T * fps), T = physics_step * SIM_DT, for every number of
\* steps.
C10_WithinOneFrame ==
    video_writer /\ AfterIteration /\ SIM_DT < frame_period =>
        /\ frames_captured <= (physics_step * SIM_DT) \div frame_period + 1
        /\ (physics_step * SIM_DT) \div frame_period <= frames_captured + 1

C10_Witness ==
    /\ video_writer
    /\ AfterIteration
    /\ 1 < SIM_DT /\ SIM_DT < frame_period
    /\ physics_step >= 4
    /\ frames_captured = (physics_step * SIM_DT) \div frame_period + 1
    /\ frames_captured >= 3

\* the loop ended because sim_time reached DURATION, with no exception: the
\* run was not cut short
RunCompleted ==
    /\ pc \in {"close_writer", "plot", "app_close", "finally", "exit"}
    /\ raised = "none"
    /\ sim_time >= DURATION

\* C11 as stated: with dt = 0.01, duration = 1.0 and fps = 10 a run that is
\* not cut short fires exactly 10 frame captures, and the buffer capacity
\* is exactly 100.
C11_Original == RunCompleted => frames_captured = 10 /\ num_steps = 100

\* C12: at most one frame capture fires per loop iteration, also when
\* SIM_DT is larger than the frame period: a step of the run adds at most 1
\* to frames_captured and to the frames written, and only as the capture
\* statement of an iteration; frames_captured <= physics_step in every
\* state.
C12_SingleFire ==
    /\ [][/\ frames_captured' <= frames_captured + 1
          /\ frames_written' <= frames_written + 1
          /\ frames_captured' # frames_captured => decisions' = decisions + 1]_vars
    /\ [](frames_captured <= decisions /\ decisions <= physics_step)

C12_Witness ==
    /\ SIM_DT > frame_period
    /\ physics_step >= 3
    /\ frames_captured = physics_step
    /\ sim_time >= next_frame_time + 2 * frame_period

\* C13: next_frame_time starts at 0, and with a video writer attached the
\* first frame is captured by the first loop iteration, for every SIM_DT
\* and frame period: once the first iteration has executed its capture
\* statement a frame has been captured, and the first capture is made at
\* physics_step = 1.
C13_FirstIterationCaptures ==
    /\ [](physics_step = 0 => next_frame_time = 0)
    /\ [](video_writer /\ decisions >= 1 => frames_captured >= 1)
    /\ [][frames_captured = 0 /\ frames_captured' = 1 =>
            physics_step = 1 /\ frames_written' = 1]_vars

C13_Witness ==
    /\ video_writer
    /\ decisions = 1
    /\ frames_captured = 1
    /\ SIM_DT < frame_period
    /\ sim_time < next_frame_time

\* C14 as stated: with the override applied every step, the velocity buffer
\* holds INIT_JOINT_VEL["joint2"] at joint column 2 of every index written
\* during the run, for every environment, whatever the engine computes.
C14_Original ==
    \A i \in logged : \A e \in Envs :
        velocity_buffer[e][i][JOINT2] = INIT_JOINT_VEL_joint2

\* C15: the velocity vector the loop writes to the engine before a step has
\* joint 2 at the configured target for every environment and every other
\* joint at the velocity just read from the engine; the write leaves the
\* joint positions alone, and the loop writes no joint positions.
C15_OverrideFrame ==
    /\ [][vel_writes' = vel_writes + 1 =>
            /\ \A e \in Envs : \A j \in Joints :
                 joint_vel'[e][j] =
                    IF j = JOINT2 THEN INIT_JOINT_VEL_joint2 ELSE joint_vel[e][j]
            /\ joint_pos' = joint_pos
            /\ pos_writes' = pos_writes]_vars
    /\ [](pos_writes = 0)
    /\ [](pc = "step" => \A e \in Envs : joint_vel[e][JOINT2] = INIT_JOINT_VEL_joint2)

C15_Witness ==
    /\ pc = "step"
    /\ vel_writes >= 2
    /\ joint_pos = SamplePos(1)
    /\ \A e \in Envs :
         /\ joint_vel[e][0] = SampleVel(1)[e][0]
         /\ joint_vel[e][JOINT1] = SampleVel(1)[e][JOINT1]
         /\ joint_vel[e][JOINT2] = INIT_JOINT_VEL_joint2

\* C16 as stated: at the moment each engine step starts, joint 1's position
\* in the engine is the configured angle INIT_JOINT_POS["joint1"], for every
\* environment.
C16_Original ==
    pc = "step" => \A e \in Envs : joint_pos[e][JOINT1] = INIT_JOINT_POS_joint1

\* C18: the loop terminates. The condition is tested at the top of every
\* iteration: an iteration starts only with the host running and sim_time <
\* DURATION, the loop is left only with the host stopped or sim_time >=
\* DURATION, the number of steps is bounded by DURATION / SIM_DT rounded
\* up, and the script always reaches its end.
C18_LoopTerminates ==
    /\ <>(pc = "exit")
    /\ [][vel_writes' = vel_writes + 1 => app_running /\ sim_time < DURATION]_vars
    /\ [][pc = "loop" /\ pc' = "close_writer" =>
            ~app_running \/ sim_time >= DURATION]_vars
    /\ []((physics_step - 1) * SIM_DT < DURATION \/ physics_step = 0)
    /\ [](vel_writes <= physics_step + 1)

C18_Witness ==
    /\ pc = "exit"
    /\ raised = "none"
    /\ physics_step >= 4
    /\ sim_time >= DURATION
    /\ sim_time > DURATION \/ app_closed = 1
    /\ DURATION > (physics_step - 1) * SIM_DT
    /\ SIM_DT >= 2

\* the statements after the loop
PostLoop == {"close_writer", "plot", "app_close", "finally", "exit"}

\* the loop was left with sim_time < DURATION: the host had stopped running
EarlyExit == pc \in PostLoop /\ raised = "none" /\ sim_time < DURATION

\* C19: when the host stops before sim_time reaches DURATION the loop is
\* left at its next test; the buffer slices at and beyond the number of
\* steps executed hold zero, the statements after the loop change no
\* buffer, and video_writer.close() is executed exactly once.
C19_EarlyExit ==
    /\ [][pc = "loop" /\ ~app_running /\ pc' # pc => pc' = "close_writer"]_vars
    /\ [](EarlyExit =>
            \A i \in 0 .. num_steps - 1 :
                i >= physics_step =>
                    /\ Slice(position_buffer, i) = Slice(zeros(num_steps), i)
                    /\ Slice(velocity_buffer, i) = Slice(zeros(num_steps), i))
    /\ [][(pc \in PostLoop) => buffer_vars' = buffer_vars]_vars
    /\ [](EarlyExit /\ video_writer =>
            writer_closed = IF pc = "close_writer" THEN 0 ELSE 1)

C19_Witness ==
    /\ pc = "exit"
    /\ EarlyExit
    /\ video_writer
    /\ joint_logger
    /\ writer_closed = 1
    /\ physics_step >= 2
    /\ physics_step < num_steps
    /\ Slice(position_buffer, 0) = SamplePos(1)
    /\ Slice(velocity_buffer, 1) = SampleVel(2)

\* C20 as stated: a run that opened a video writer never ends with the
\* writer not closed, also when an error was raised inside the loop.
C20_Original == pc = "exit" /\ video_writer => writer_closed >= 1

\* the calls into the engine that the loop makes
EngineCalls == {"write_joint_velocity_to_sim", "step"}

\* the calls that record telemetry or capture a frame
InstrumentationCalls == {"IndexError", "record_frame"}

\* C21: an error raised by an engine call (the velocity write or the step)
\* is fatal: it leaves run_simulator at once, it stays raised, and after it
\* the run makes no engine call, no update, no telemetry record, no frame
\* capture and no statement of run_simulator after the loop.
C21_EngineErrorFatal ==
    /\ [](raised \in EngineCalls => pc \in {"finally", "exit"})
    /\ [][(raised \in EngineCalls) =>
            /\ raised' = raised
            /\ vel_writes' = vel_writes
            /\ engine_steps' = engine_steps
            /\ physics_step' = physics_step
            /\ updates' = updates
            /\ log_calls' = log_calls
            /\ decisions' = decisions
            /\ frames_written' = frames_written
            /\ frames_captured' = frames_captured
            /\ writer_closed' = writer_closed
            /\ plot_calls' = plot_calls]_vars

C21_Witness ==
    /\ pc = "exit"
    /\ raised = "step"
    /\ physics_step >= 2
    /\ vel_writes = physics_step + 1
    /\ app_closed = 1
    /\ sim_time < DURATION

\* C22 as stated: an error raised while recording telemetry or capturing a
\* frame does not stop the run: the loop is left only when sim_time has
\* reached DURATION or the host has stopped.
C22_Original ==
    raised \in InstrumentationCalls /\ pc = "finally" =>
        sim_time >= DURATION \/ ~app_running

\* C23 as stated: a run configured with a non-positive fps is rejected: it
\* never runs to normal completion, and its frame deadline never moves
\* backwards while frames are captured.
C23_Original ==
    frame_period <= 0 =>
        /\ ~(pc = "exit" /\ raised = "none" /\ sim_time >= DURATION)
        /\ next_frame_time >= 0

\* C24: the buffers are read by plot only, and only after the loop: plot
\* is called at most once per run, as the plot statement after the loop;
\* once it has been called no log call follows and no buffer changes; a run
\* that ends without an exception, completed or cut short by the host, has
\* plotted exactly once when a logger is attached.
C24_PlotAfterLoop ==
    /\ [](plot_calls <= 1)
    /\ [][plot_calls' # plot_calls =>
            /\ pc = "plot"
            /\ joint_logger
            /\ plot_calls' = plot_calls + 1]_vars
    /\ [](plot_calls > 0 => pc \in {"app_close", "finally", "exit"})
    /\ [][(plot_calls > 0) =>
            /\ log_calls' = log_calls
            /\ buffer_vars' = buffer_vars]_vars
    /\ [](pc = "exit" /\ raised = "none" /\ joint_logger => plot_calls = 1)
    /\ [](pc = "exit" /\ ~joint_logger => plot_calls = 0)

C24_Witness ==
    /\ pc = "exit"
    /\ EarlyExit
    /\ joint_logger
    /\ plot_calls = 1
    /\ log_calls = 2
    /\ num_steps = 3
    /\ DOMAIN time_array = 0 .. 2

\* C25 as stated: in a run the host does not cancel the number of physics
\* steps executed equals the buffer capacity int(DURATION / SIM_DT), for
\* every SIM_DT and DURATION; with a logger attached every executed step's
\* sample is stored and no index passed to log is out of range.
C25_Original ==
    RunCompleted =>
        /\ physics_step = num_steps
        /\ joint_logger => warnings = 0 /\ logged = 0 .. physics_step - 1

\* C26 as stated: when SIM_DT <= frame period, at the end of every loop
\* iteration next_frame_time >= sim_time.
C26_Original ==
    AfterIteration /\ SIM_DT <= frame_period => next_frame_time >= sim_time

\* C26, amended: in a run with a video writer attached and SIM_DT <= frame
\* period, at the end of every loop iteration next_frame_time >= sim_time:
\* the schedule never falls behind the clock.
C26_ScheduleKeepsUp ==
    video_writer /\ AfterIteration /\ SIM_DT <= frame_period =>
        next_frame_time >= sim_time

C26_Witness ==
    /\ video_writer
    /\ AfterIteration
    /\ 1 < SIM_DT /\ SIM_DT = frame_period
    /\ physics_step >= 4
    /\ frames_captured = physics_step
    /\ next_frame_time = sim_time

\* C27: without a video writer no frame is captured or written and the
\* schedule never advances: frames_captured and next_frame_time stay 0 for
\* the whole run. The override writes, engine steps, updates and telemetry
\* records do not depend on the writer: at the top of every iteration, with
\* or without a writer, each has been made once per physics step, and an
\* uncancelled run makes the same number of steps.
C27_NoWriterNoCapture ==
    /\ [](~video_writer =>
            /\ frames_captured = 0
            /\ frames_written = 0
            /\ next_frame_time = 0
            /\ writer_closed = 0)
    /\ [](pc = "loop" =>
            /\ vel_writes = physics_step
            /\ engine_steps = physics_step
            /\ updates = physics_step
            /\ decisions = physics_step
            /\ log_calls = IF joint_logger THEN physics_step ELSE 0)
    /\ [](RunCompleted =>
            /\ (physics_step - 1) * SIM_DT < DURATION
            /\ physics_step * SIM_DT >= DURATION)

C27_Witness ==
    /\ ~video_writer
    /\ joint_logger
    /\ pc = "exit"
    /\ RunCompleted
    /\ physics_step = 3
    /\ log_calls = 3
    /\ decisions = 3
    /\ sim_time >= 2 * frame_period
    /\ frames_captured = 0

\* C28 as stated: sim.py takes the still snapshot at most once per run, and
\* exactly once in every run in which an executed step has reached sim_time
\* >= 1.0 second, for every SIM_DT: at the top of the loop, once sim_time
\* >= 1.0 the snapshot has been taken.
C28_Original ==
    /\ snapshots <= 1
    /\ pc = "loop" /\ sim_time >= TicksPerSecond => snapshots = 1

\* C29 as stated: the simulation app handle is closed on every exit path of
\* the script: when the script ends, simulation_app.close() has been called.
C29_Original == pc = "exit" => app_closed >= 1

====
